---- MODULE Spec2Model ----
(***************************************************************************)
(* Aggregate Peak Analysis over a HICSLICE contact stream.                 *)
(*                                                                         *)
(* The module models processSliceFile (src/apa.cpp) together with the      *)
(* structures of src/apa.h it drives: RegionsOfInterest, LoopIndex,        *)
(* CoverageVectors and APAMatrix, and BedpeBuilder::buildBedpe             *)
(* (src/bedpe_builder.cpp), which makes the loop sets.                     *)
(*                                                                         *)
(* Numbers.  A C++ float that is finite is modelled by the exact rational  *)
(* <<n, d>> (d > 0, lowest terms); rounding of float arithmetic is not     *)
(* modelled.  A record value, which is read raw from the stream, is        *)
(* [k |-> "fin" | "nan" | "inf", q |-> rational].  Vectors and matrices of *)
(* floats are stored sparsely: an index that is absent from the map holds  *)
(* 0.0f.  int32_t additions of coordinates and bins wrap around at 32 bits.       *)
(***************************************************************************)
EXTENDS Integers, Sequences, FiniteSets, TLC

(***************************************************************************)
(* Bounds of the model.                                                    *)
(***************************************************************************)
\* number of complete contact records a stream holds at most
MaxRecords == 2
\* number of APAMatrix::add calls of the APAMatrix unit specification
MaxAdds == 2

(***************************************************************************)
(* Program constants.                                                      *)
(***************************************************************************)
BIN_GROUP_SIZE == 1000
\* sizeof(record): int16, int32, int16, int32, float with natural alignment
record_size == 20
\* detail::getChromBins fallback size in bp
DEFAULT_FALLBACK_BP == 20000000

DEFAULT_CHROM_SIZES ==
    [c \in {"chr1", "chr2"} |-> IF c = "chr1" THEN 248956422 ELSE 242193529]

(***************************************************************************)
(* Integer arithmetic as the C++ code computes it.                         *)
(***************************************************************************)
\* INT32_MAX
MaxInt32 == 2147483647

\* a + b in int32_t, wrapping around as two's complement does.  Every integer
\* of the model lies in the int32_t range, so narrowing a long is exact here.
Add32(a, b) ==
    IF a > 0 /\ b > 0 /\ a > MaxInt32 - b
    THEN (a - MaxInt32 - 1) + (b - MaxInt32 - 1)
    ELSE IF a < 0 /\ b < 0 /\ a < (-MaxInt32 - 1) - b
    THEN (a + MaxInt32 + 1) + (b + MaxInt32 + 1)
    ELSE a + b

\* C++ integer division truncates toward zero (b > 0)
CDiv(a, b) == IF a >= 0 THEN a \div b ELSE -((-a) \div b)

\* (lo + hi) / 2 in long arithmetic
LongMid(lo, hi) ==
    IF lo >= 0 /\ hi >= 0
    THEN (lo \div 2) + (hi \div 2) + ((lo % 2) + (hi % 2)) \div 2
    ELSE CDiv(lo + hi, 2)

Abs(x) == IF x < 0 THEN -x ELSE x

(***************************************************************************)
(* Exact rationals standing for finite float values.                       *)
(***************************************************************************)
RECURSIVE GCD(_, _)
GCD(a, b) == IF b = 0 THEN a ELSE GCD(b, a % b)

Rat(n, d) ==
    LET s == IF d < 0 THEN -1 ELSE 1
        g == GCD(Abs(n), Abs(d))
    IN  IF n = 0 THEN <<0, 1>> ELSE <<(s * n) \div g, (s * d) \div g>>

RZero == <<0, 1>>
RInt(n) == <<n, 1>>
RAdd(p, q) == Rat(p[1] * q[2] + q[1] * p[2], p[2] * q[2])
RMul(p, q) == Rat(p[1] * q[1], p[2] * q[2])
RDiv(p, q) == Rat(p[1] * q[2], p[2] * q[1])
RPos(p) == p[1] > 0

\* record.value as read from the stream
Fin(n) == [k |-> "fin", q |-> RInt(n)]
NaN == [k |-> "nan", q |-> RZero]
Inf == [k |-> "inf", q |-> RInt(1)]

\* sparse float containers: absent index = 0.0f
Get(f, i) == IF i \in DOMAIN f THEN f[i] ELSE RZero
Put(f, i, v) == [j \in DOMAIN f \cup {i} |-> IF j = i THEN v ELSE f[j]]
Empty == [i \in {} |-> RZero]

RECURSIVE RSum(_, _)
\* sum of f over the finite index set S
RSum(f, S) ==
    IF S = {} THEN RZero
    ELSE LET i == CHOOSE j \in S : TRUE IN RAdd(f[i], RSum(f, S \ {i}))

Range(s) == {s[i] : i \in DOMAIN s}

(***************************************************************************)
(* APAMatrix (src/apa.h): [width, matrix], matrix sparse over <<x, y>>.    *)
(***************************************************************************)
\* mutant: the matrix is one row and one column short
APAMatrixShort(size) == [width |-> size - 1, matrix |-> Empty]

APAMatrix(size) == [width |-> size, matrix |-> Empty]

Cell(m, x, y) == Get(m.matrix, <<x, y>>)

\* mutant: the upper bound of the check is off by one
APAMatrixAddLoose(m, relX, relY, value) ==
    IF relX >= 0 /\ relX <= m.width /\ relY >= 0 /\ relY <= m.width
    THEN [m EXCEPT !.matrix = Put(@, <<relX, relY>>, RAdd(Get(@, <<relX, relY>>), value))]
    ELSE m

APAMatrixAdd(m, relX, relY, value) ==
    IF relX >= 0 /\ relX < m.width /\ relY >= 0 /\ relY < m.width
    THEN [m EXCEPT !.matrix = Put(@, <<relX, relY>>, RAdd(Get(@, <<relX, relY>>), value))]
    ELSE m

\* a std::vector<float> of `size` entries, all 0.0f
ZeroVector(size) == [size |-> size, v |-> Empty]

At(vec, i) == Get(vec.v, i)

\* mutant: the sum of the positive entries is divided by the vector's size
getAverageOverAll(vec) ==
    LET pos == {i \in DOMAIN vec.v : RPos(vec.v[i])}
    IN  IF Cardinality(pos) > 0
        THEN RDiv(RSum(vec.v, pos), RInt(vec.size))
        ELSE RInt(1)

getAverage(vec) ==
    LET pos == {i \in DOMAIN vec.v : RPos(vec.v[i])}
    IN  IF Cardinality(pos) > 0
        THEN RDiv(RSum(vec.v, pos), RInt(Cardinality(pos)))
        ELSE RInt(1)

\* mutant: the vector is left unscaled
scaleByAverageSkipped(vec) == vec

scaleByAverage(vec) ==
    LET avg == getAverage(vec)
    IN  IF RPos(avg)
        THEN [vec EXCEPT !.v = [i \in DOMAIN @ |-> RDiv(@[i], avg)]]
        ELSE vec

\* mutant: the row and the column index are exchanged
NormValSwapped(rowSums, colSums, r, c) == RMul(At(rowSums, c), At(colSums, r))

\* normVal of cell (r, c)
NormVal(rowSums, colSums, r, c) == RMul(At(rowSums, r), At(colSums, c))

normalize(m, rowSums, colSums) ==
    LET kept == {rc \in DOMAIN m.matrix :
                    /\ m.matrix[rc] # RZero
                    /\ RPos(NormVal(rowSums, colSums, rc[1], rc[2]))}
    IN  [m EXCEPT !.matrix =
            [rc \in kept |-> RDiv(m.matrix[rc], NormVal(rowSums, colSums, rc[1], rc[2]))]]

(***************************************************************************)
(* CoverageVectors (src/apa.h): [vectors, resolution]; vectors maps a      *)
(* chromosome name to its dense float vector of getChromBins entries,      *)
(* stored sparsely.                                                        *)
(***************************************************************************)
getChromBins(chrom, res) ==
    IF chrom \in DOMAIN DEFAULT_CHROM_SIZES
    THEN (DEFAULT_CHROM_SIZES[chrom] \div res) + 1
    ELSE DEFAULT_FALLBACK_BP \div res

CoverageVectors(res) == [vectors |-> [c \in {} |-> Empty], resolution |-> res]

\* vec[bin] is an element of the vector after the two resize calls
CoverageAddInBounds(cov, chrom, bin) ==
    bin >= 0 /\ bin < getChromBins(chrom, cov.resolution)

\* vec[bin] += value.  With bin outside the vector the write is undefined
\* behaviour; this is the outcome in which it lands outside the vector and
\* the run goes on (the other outcome, the run dying, is taken in ReadRecord).
CoverageAdd(cov, chrom, bin, value) ==
    LET touched == IF chrom \in DOMAIN cov.vectors THEN cov.vectors
                   ELSE Put(cov.vectors, chrom, Empty)
    IN  IF CoverageAddInBounds(cov, chrom, bin)
        THEN [cov EXCEPT !.vectors =
                [touched EXCEPT ![chrom] = Put(@, bin, RAdd(Get(@, bin), value))]]
        ELSE [cov EXCEPT !.vectors = touched]

CoverageAt(cov, chrom, bin) ==
    IF chrom \in DOMAIN cov.vectors THEN Get(cov.vectors[chrom], bin) ELSE RZero

\* mutant: the coverage is stored into the sums instead of added to them
addLocalSumsAssign(sums, cov, chrom, binStart) ==
    IF chrom \in DOMAIN cov.vectors
    THEN LET vec == cov.vectors[chrom]
             hit == {i \in {b - binStart : b \in DOMAIN vec} : i >= 0 /\ i < sums.size}
         IN  [sums EXCEPT !.v =
                [i \in DOMAIN @ \cup hit |-> IF i \in hit THEN vec[binStart + i] ELSE @[i]]]
    ELSE sums

addLocalSums(sums, cov, chrom, binStart) ==
    IF chrom \in DOMAIN cov.vectors
    THEN LET vec == cov.vectors[chrom]
             \* entries other than those at a bin holding coverage get + 0.0f
             touched == {b - binStart : b \in DOMAIN vec}
             hit == {i \in {j \in touched : j >= 0 /\ j < sums.size} :
                        /\ Add32(binStart, i) >= 0
                        /\ Add32(binStart, i) < getChromBins(chrom, cov.resolution)
                        /\ Add32(binStart, i) \in DOMAIN vec}
         IN  [sums EXCEPT !.v =
                [i \in DOMAIN @ \cup hit |->
                    IF i \in hit THEN RAdd(Get(@, i), vec[Add32(binStart, i)]) ELSE @[i]]]
    ELSE sums

(***************************************************************************)
(* RegionsOfInterest and LoopIndex (src/apa.h).  A BedpeEntry is           *)
(* [chrom1, start1, end1, chrom2, start2, end2] with long coordinates.     *)
(***************************************************************************)
\* center bin of one anchor: (start / res + (end / res + 1)) / 2 in int32_t
CenterBin(lo, hi, res) ==
    LET binStart == CDiv(lo, res)
        binEnd == CDiv(hi, res) + 1
    IN  CDiv(Add32(binStart, binEnd), 2)

\* mutant: the last bin of the window is left out
WindowBinsShort(center, win) == {bin \in (center - win)..(center + win - 1) : bin >= 0}

\* the bins center - win .. center + win the constructor inserts: those >= 0
WindowBins(center, win) ==
    (IF center - win < 0 THEN 0 ELSE center - win)..(center + win)

RegionsOfInterest(bedpe_entries, res, win, inter) ==
    [rowIndices |->
        [c \in {e.chrom1 : e \in Range(bedpe_entries)} |->
            UNION {WindowBins(CenterBin(e.start1, e.end1, res), win) :
                    e \in {x \in Range(bedpe_entries) : x.chrom1 = c}}],
     colIndices |->
        [c \in {e.chrom2 : e \in Range(bedpe_entries)} |->
            UNION {WindowBins(CenterBin(e.start2, e.end2, res), win) :
                    e \in {x \in Range(bedpe_entries) : x.chrom2 = c}}],
     resolution |-> res, window |-> win, isInter |-> inter]

probablyContainsRecord(roi, chr1, chr2, binX, binY) ==
    IF roi.isInter /\ chr1 = chr2 THEN FALSE
    ELSE IF ~roi.isInter /\ chr1 # chr2 THEN FALSE
    ELSE /\ chr1 \in DOMAIN roi.rowIndices
         /\ chr2 \in DOMAIN roi.colIndices
         /\ binX \in roi.rowIndices[chr1]
         /\ binY \in roi.colIndices[chr2]

LoopInfo(entry) ==
    [chrom1 |-> entry.chrom1, chrom2 |-> entry.chrom2,
     start1 |-> entry.start1, end1 |-> entry.end1,
     start2 |-> entry.start2, end2 |-> entry.end2]

\* bin_group under which the constructor files a loop
LoopBinGroup(loop, res) ==
    CDiv(CDiv(LongMid(loop.start1, loop.end1), res), BIN_GROUP_SIZE)

LoopIndex(bedpe_entries, res) ==
    LET pairs == {<<e.chrom1, e.chrom2>> : e \in Range(bedpe_entries)}
        InGroup(p, g) ==
            LET Test(e) == <<e.chrom1, e.chrom2>> = p /\ LoopBinGroup(e, res) = g
                sel == SelectSeq(bedpe_entries, Test)
            IN  [i \in 1..Len(sel) |-> LoopInfo(sel[i])]
    IN  [loops |->
            [p \in pairs |->
                [g \in {LoopBinGroup(e, res) :
                            e \in {x \in Range(bedpe_entries) : <<x.chrom1, x.chrom2>> = p}}
                    |-> InGroup(p, g)]],
         resolution |-> res]

getNearbyLoops(index, chr1, chr2, binX) ==
    IF <<chr1, chr2>> \notin DOMAIN index.loops THEN <<>>
    ELSE LET groups == index.loops[<<chr1, chr2>>]
             bin_group == CDiv(binX, BIN_GROUP_SIZE)
             Group(g) == IF g \in DOMAIN groups THEN groups[g] ELSE <<>>
         IN  Group(bin_group - 1) \o Group(bin_group) \o Group(bin_group + 1)

\* every loop the index holds, as the normalization loops visit them
RECURSIVE Flatten(_, _)
Flatten(f, S) ==
    IF S = {} THEN <<>>
    ELSE LET k == CHOOSE j \in S : TRUE IN f[k] \o Flatten(f, S \ {k})

AllLoops(index) ==
    Flatten([p \in DOMAIN index.loops |->
                Flatten(index.loops[p], DOMAIN index.loops[p])],
            DOMAIN index.loops)

(***************************************************************************)
(* The per-record step of processSliceFile (src/apa.cpp, lines 198-274).   *)
(* cfg holds what the step only reads: [window_size, isInter,              *)
(* min_genome_dist, max_genome_dist, resolution, all_roi, all_indices];    *)
(* st holds what it writes: [coverage, all_matrices, chromosomeKeyToName,  *)
(* contact_count].                                                         *)
(***************************************************************************)
\* std::map<int16_t, std::string>::operator[]: the value, and the insertion
Lookup(dict, key) == IF key \in DOMAIN dict THEN dict[key] ELSE ""
Touch(dict, key) == IF key \in DOMAIN dict THEN dict ELSE Put(dict, key, "")

\* mutant: the sign of the value is not looked at
ValueRejectedNoSign(value) == value.k = "nan" \/ value.k = "inf"

ValueRejected(value) == value.k = "nan" \/ value.k = "inf" \/ ~RPos(value.q)

ModeRejected(inter, chr1, chr2) ==
    (inter /\ chr1 = chr2) \/ (~inter /\ chr1 # chr2)

\* mutant: the bounds are taken without the buffer of 3 * window_size bins
DistanceRejectedNoBuffer(cfg, rec) ==
    /\ ~cfg.isInter
    /\ LET bin_distance == Abs(rec.binX - rec.binY)
           genomic_distance == bin_distance * cfg.resolution
       IN  \/ genomic_distance < cfg.min_genome_dist
           \/ genomic_distance > cfg.max_genome_dist

DistanceRejected(cfg, rec) ==
    /\ ~cfg.isInter
    /\ LET bin_distance == Abs(rec.binX - rec.binY)
           genomic_distance == bin_distance * cfg.resolution
           buffer == (3 * cfg.window_size) * cfg.resolution
       IN  \/ genomic_distance < cfg.min_genome_dist - buffer
           \/ genomic_distance > cfg.max_genome_dist + buffer

RECURSIVE AccumulateLoops(_, _, _, _, _, _)
\* the loop over nearby_loops, from its i-th element on
AccumulateLoops(m, nearby_loops, i, rec, res, win) ==
    IF i > Len(nearby_loops) THEN m
    ELSE LET loop == nearby_loops[i]
             loopCenterX == CenterBin(loop.start1, loop.end1, res)
             loopCenterY == CenterBin(loop.start2, loop.end2, res)
             relX == rec.binX - (loopCenterX - win)
             relY == rec.binY - (loopCenterY - win)
             m1 == IF /\ Abs(rec.binX - loopCenterX) <= win
                      /\ Abs(rec.binY - loopCenterY) <= win
                   THEN APAMatrixAdd(m, relX, relY, rec.value.q)
                   ELSE m
         IN  AccumulateLoops(m1, nearby_loops, i + 1, rec, res, win)

\* one round of the loop over bedpe_idx
ProcessSet(m, roi, index, chr1, chr2, rec, res, win) ==
    IF probablyContainsRecord(roi, chr1, chr2, rec.binX, rec.binY)
    THEN AccumulateLoops(m, getNearbyLoops(index, chr1, chr2, rec.binX), 1, rec, res, win)
    ELSE m

\* mutant: every round works on the structures of the first set
SetOfFirst(all, bedpe_idx) == all[1]

\* which structures round bedpe_idx works on
SetOf(all, bedpe_idx) == all[bedpe_idx]

\* the record gets as far as the coverage update
Accepted(st, cfg, rec) ==
    /\ ~ValueRejected(rec.value)
    /\ ~ModeRejected(cfg.isInter, Lookup(st.chromosomeKeyToName, rec.chr1Key),
                     Lookup(st.chromosomeKeyToName, rec.chr2Key))

\* one of the record's coverage.add calls writes outside its vector
CoverageOutOfBounds(st, cfg, rec) ==
    LET chr1 == Lookup(st.chromosomeKeyToName, rec.chr1Key)
        chr2 == Lookup(st.chromosomeKeyToName, rec.chr2Key)
    IN  /\ Accepted(st, cfg, rec)
        /\ \/ ~CoverageAddInBounds(st.coverage, chr1, rec.binX)
           \/ /\ chr1 # chr2 \/ rec.binX # rec.binY
              /\ ~CoverageAddInBounds(st.coverage, chr2, rec.binY)

ProcessRecord(st, cfg, rec) ==
    LET count == st.contact_count + 1
        printed == IF count <= 2
                   THEN Touch(Touch(st.chromosomeKeyToName, rec.chr1Key), rec.chr2Key)
                   ELSE st.chromosomeKeyToName
        named == Touch(Touch(printed, rec.chr1Key), rec.chr2Key)
        chr1 == Lookup(named, rec.chr1Key)
        chr2 == Lookup(named, rec.chr2Key)
        cov1 == CoverageAdd(st.coverage, chr1, rec.binX, rec.value.q)
        cov2 == IF chr1 # chr2 \/ rec.binX # rec.binY
                THEN CoverageAdd(cov1, chr2, rec.binY, rec.value.q)
                ELSE cov1
    IN  IF ValueRejected(rec.value)
        THEN [st EXCEPT !.contact_count = count, !.chromosomeKeyToName = printed]
        ELSE IF ModeRejected(cfg.isInter, chr1, chr2)
        THEN [st EXCEPT !.contact_count = count, !.chromosomeKeyToName = named]
        ELSE IF DistanceRejected(cfg, rec)
        THEN [st EXCEPT !.contact_count = count, !.chromosomeKeyToName = named,
                        !.coverage = cov2]
        ELSE [st EXCEPT !.contact_count = count, !.chromosomeKeyToName = named,
                        !.coverage = cov2,
                        !.all_matrices =
                            [bedpe_idx \in DOMAIN @ |->
                                ProcessSet(@[bedpe_idx],
                                           SetOf(cfg.all_roi, bedpe_idx),
                                           SetOf(cfg.all_indices, bedpe_idx),
                                           chr1, chr2, rec, cfg.resolution,
                                           cfg.window_size)]]

\* mutant: any byte read counts as a record
ReadSucceededPartial(n) == n > 0

\* fread(&record, record_size, 1, raw_file) == 1, the stream supplying n bytes
ReadSucceeded(n) == n = record_size

(***************************************************************************)
(* Normalization after the loop (src/apa.cpp, lines 285-303).              *)
(***************************************************************************)
\* first bin of the loop's coverage window on one axis
SumsBinStart(lo, hi, res, win) ==
    CDiv(CDiv(Add32(lo, hi), 2), res) - win

RECURSIVE LocalSums(_, _, _, _, _, _, _)
\* addLocalSums over the loops of one index, from the i-th on; axis 1 | 2
LocalSums(sums, loops, i, cov, res, win, axis) ==
    IF i > Len(loops) THEN sums
    ELSE LET loop == loops[i]
             next == IF axis = 1
                     THEN addLocalSums(sums, cov, loop.chrom1,
                                       SumsBinStart(loop.start1, loop.end1, res, win))
                     ELSE addLocalSums(sums, cov, loop.chrom2,
                                       SumsBinStart(loop.start2, loop.end2, res, win))
         IN  LocalSums(next, loops, i + 1, cov, res, win, axis)

\* scaled rowSums (axis 1) or colSums (axis 2) of set bedpe_idx
ScaledSums(sums, all_idx, bedpe_idx, cov, res, win, axis) ==
    scaleByAverage(LocalSums(sums, AllLoops(all_idx[bedpe_idx]), 1, cov, res, win, axis))

NormalizeAll(st, cfg, rowSums, colSums) ==
    [bedpe_idx \in DOMAIN st.all_matrices |->
        normalize(st.all_matrices[bedpe_idx],
                  ScaledSums(rowSums[bedpe_idx], cfg.all_indices, bedpe_idx, st.coverage,
                             cfg.resolution, cfg.window_size, 1),
                  ScaledSums(colSums[bedpe_idx], cfg.all_indices, bedpe_idx, st.coverage,
                             cfg.resolution, cfg.window_size, 2))]

(***************************************************************************)
(* Inputs: the arguments of processSliceFile and the contents of the       *)
(* stream.                                                                 *)
(***************************************************************************)
Bedpe(c1, s1, e1, c2, s2, e2) ==
    [chrom1 |-> c1, start1 |-> s1, end1 |-> e1,
     chrom2 |-> c2, start2 |-> s2, end2 |-> e2]

LoopA == Bedpe("chr1", 50000, 50000, "chr1", 50000, 50000)
LoopB == Bedpe("chr1", 49000, 49000, "chr1", 51000, 51000)
LoopZero == Bedpe("chr1", 0, 0, "chr1", 0, 0)
LoopWide == Bedpe("chr1", 999000, 1000000, "chr1", 999000, 1000000)
LoopInter == Bedpe("chr1", 50000, 50000, "chr2", 50000, 50000)
LoopFar == Bedpe("chr1", 50000, 50000, "chr1", 58000, 58000)

Args(win, inter, minD, maxD, sets) ==
    [window_size |-> win, isInter |-> inter, min_genome_dist |-> minD,
     max_genome_dist |-> maxD, all_bedpe_entries |-> sets]

StandardArgs == Args(1, FALSE, 0, 2000000, << <<LoopA>> >>)

ArgChoices ==
    { StandardArgs,
      Args(1, FALSE, 0, 2000000, << <<LoopA>>, <<LoopB, LoopZero, LoopB>> >>),
      Args(1000, FALSE, 0, 2000000, << <<LoopWide>> >>),
      Args(1, TRUE, 0, 0, << <<LoopInter>>, <<LoopInter, LoopA>> >>),
      Args(1, FALSE, 20000, 30000, << <<LoopFar>>, <<LoopA>> >>),
      Args(0, FALSE, 0, 2000000, << <<LoopA>> >>),
      Args(1, FALSE, 30000, 20000, << <<LoopA>> >>) }

Chrom(name, key) == [nameLength |-> Len(name), name |-> name, key |-> key]

\* a chromosome entry whose nameLength field is negative
ChromNegative(len, key) == [nameLength |-> len, name |-> "", key |-> key]

\* the header as the stream holds it.  items counts the fields the stream
\* supplies in full: magic, resolution, numChromosomes, then nameLength, name
\* and key of each chromosome entry
Header(magic, res, n, chroms) ==
    [magic |-> magic, resolution |-> res, numChromosomes |-> n, chroms |-> chroms,
     items |-> 3 + 3 * Len(chroms)]

\* the stream ends after the first k fields of header h
Cut(h, k) == [h EXCEPT !.items = k]

StandardHeader ==
    Header("HICSLICE", 1000, 2, <<Chrom("chr1", 1), Chrom("chr2", 2)>>)

HeaderChoices ==
    { StandardHeader,
      Header("HICSLICX", 1000, 2, <<Chrom("chr1", 1), Chrom("chr2", 2)>>),
      Header("HICSLICE", 0, 2, <<Chrom("chr1", 1), Chrom("chr2", 2)>>),
      Header("HICSLICE", 1000, 0, <<>>),
      Header("HICSLICE", 1000, 2, <<Chrom("chr2", 1), Chrom("chr1", 1)>>),
      Header("HICSLICE", 1000, 2, <<Chrom("chr1", 1), Chrom("", 2)>>),
      Header("HICSLICE", 1000, 2, <<Chrom("chr1", 1), ChromNegative(-1, 2)>>),
      Header("HICSLICE", 1000, 2, <<Chrom("chr1", 1), ChromNegative(-5, 2)>>),
      Header("HICSLICE", 1000, 3, <<Chrom("chr1", 1), Chrom("chr2", 2)>>),
      Header("HICSLICE", 1000, 1, <<Chrom("chr2", 1)>>),
      Cut(Header("HICSLICE", 1000, 2, <<Chrom("chr1", 1), Chrom("chr2", 2)>>), 0),
      Cut(Header("HICSLICE", 1000, 2, <<Chrom("chr1", 1), Chrom("chr2", 2)>>), 1),
      Cut(Header("HICSLICE", 1000, 2, <<Chrom("chr1", 1), Chrom("chr2", 2)>>), 2),
      Cut(Header("HICSLICE", 1000, 2, <<Chrom("chr1", 1), Chrom("chr2", 2)>>), 7) }

Record(k1, bx, k2, by, v) ==
    [chr1Key |-> k1, binX |-> bx, chr2Key |-> k2, binY |-> by, value |-> v]

RecordChoices ==
    { Record(1, 50, 1, 50, Fin(2)),
      Record(1, 49, 1, 51, Fin(1)),
      Record(1, 50, 1, 50, NaN),
      Record(1, 50, 1, 50, Inf),
      Record(1, 50, 1, 50, Fin(0)),
      Record(1, 50, 1, 50, Fin(-1)),
      Record(1, 50, 2, 50, Fin(1)),
      Record(1, 0, 1, 0, Fin(1)),
      Record(1, -1, 1, 0, Fin(1)),
      Record(1, 1000, 1, 1000, Fin(3)),
      Record(1, 2000, 1, 2000, Fin(1)),
      Record(1, 300000, 1, 300000, Fin(1)),
      Record(3, 50, 3, 50, Fin(1)),
      Record(1, 50, 1, 58, Fin(1)),
      Record(1, 999, 1, 999, Fin(1)) }

\* what one read of record_size bytes returns: the bytes the stream could
\* still supply, or ReadError when the read itself failed (gzread returns -1;
\* fread returns 0 items with the error indicator set)
ReadError == -1

ReadSizes == {ReadError, 0, 1, record_size - 1, record_size}

NoRecord == Record(0, 0, 0, 0, Fin(0))

(***************************************************************************)
(* State of one call of processSliceFile.                                  *)
(***************************************************************************)
VARIABLES
    pc,                     \* position in processSliceFile
    args,                   \* the arguments of the call (read only)
    header,                 \* the header bytes of the stream (read only)
    all_bedpe_entries,      \* the modifiable copy of the loop sets
    resolution,
    all_roi,
    all_indices,
    all_matrices,
    all_rowSums,
    all_colSums,
    numChromosomes,
    chromosomeKeyToName,
    coverage,
    record,                 \* the read buffer
    contact_count,
    bytesRead,              \* what the last read of a record returned
    raw_file,               \* the stream: how often it was opened and closed
    consumed,               \* history: the complete records read so far
    \* one APAMatrix and its sum vectors, driven call by call
    upc,                    \* which of its operations come next
    um,                     \* the APAMatrix
    urowSums,
    ucolSums,
    uadds,                  \* history: the calls made, with their arguments
    uraw,                   \* history: the matrix before normalize
    urow0,                  \* history: rowSums before scaleByAverage
    \* one BedpeBuilder, driven step by step through buildBedpe
    bpc,                    \* position in buildBedpe
    builder,                \* the members of the BedpeBuilder and its two files
    forward_data,
    reverse_data,
    all_results

runVars == <<pc, args, header, all_bedpe_entries, resolution, all_roi, all_indices,
             all_matrices, all_rowSums, all_colSums, numChromosomes,
             chromosomeKeyToName, coverage, record, contact_count, bytesRead, raw_file,
             consumed>>

unitVars == <<upc, um, urowSums, ucolSums, uadds, uraw, urow0>>

bedVars == <<bpc, builder, forward_data, reverse_data, all_results>>

vars == <<runVars, unitVars, bedVars>>

\* what the record step reads and what it writes
Cfg ==
    [window_size |-> args.window_size, isInter |-> args.isInter,
     min_genome_dist |-> args.min_genome_dist, max_genome_dist |-> args.max_genome_dist,
     resolution |-> resolution, all_roi |-> all_roi, all_indices |-> all_indices]

St ==
    [coverage |-> coverage, all_matrices |-> all_matrices,
     chromosomeKeyToName |-> chromosomeKeyToName, contact_count |-> contact_count]

\* no APAMatrix is driven on its own
UnitOff ==
    /\ upc = "off"
    /\ um = APAMatrix(1)
    /\ urowSums = ZeroVector(1)
    /\ ucolSums = ZeroVector(1)
    /\ uadds = <<>>
    /\ uraw = APAMatrix(1)
    /\ urow0 = ZeroVector(1)

\* no BedpeBuilder is driven
BedOff ==
    /\ bpc = "off"
    /\ builder = [forward_bed_file |-> <<>>, reverse_bed_file |-> <<>>,
                  min_genome_dist |-> 0, max_genome_dist |-> 0, isInter |-> FALSE]
    /\ forward_data = <<>>
    /\ reverse_data = <<>>
    /\ all_results = <<>>

\* the stream before fopen / gzopen
Unopened == [opened |-> 0, closed |-> 0]

\* fopen / gzopen succeeded
Opened(f) == [f EXCEPT !.opened = @ + 1]

\* mutant: the stream is closed a second time
ClosedTwice(f) == [f EXCEPT !.closed = @ + 2]

\* fclose / gzclose
Closed(f) == [f EXCEPT !.closed = @ + 1]

Init ==
    /\ UnitOff
    /\ BedOff
    /\ pc = "Init"
    /\ args \in ArgChoices
    /\ header \in HeaderChoices
    \* the arguments vary against the standard stream, the headers against
    \* the standard arguments
    /\ args = StandardArgs \/ header = StandardHeader
    /\ all_bedpe_entries = args.all_bedpe_entries
    /\ resolution = 0
    /\ all_roi = <<>>
    /\ all_indices = <<>>
    /\ all_matrices = <<>>
    /\ all_rowSums = <<>>
    /\ all_colSums = <<>>
    /\ numChromosomes = 0
    /\ chromosomeKeyToName = [k \in {} |-> ""]
    /\ coverage = CoverageVectors(1)
    /\ record = NoRecord
    /\ contact_count = 0
    /\ bytesRead = 0
    /\ raw_file = Unopened
    /\ consumed = <<>>

\* chromosomeKeyToName[key] = chromosomeName over the n header entries: a
\* later entry with the same key replaces the earlier one
Dictionary(chroms, n) ==
    [k \in {chroms[i].key : i \in 1..n} |->
        LET last == CHOOSE i \in 1..n :
                        /\ chroms[i].key = k
                        /\ \A j \in 1..n : chroms[j].key = k => j <= i
        IN  chroms[last].name]

\* lines 41-88: window check, open, magic, resolution
ReadResolution ==
    /\ pc = "Init"
    /\ IF args.window_size <= 0
       THEN pc' = "Failed" /\ UNCHANGED <<resolution, raw_file>>
       ELSE IF \/ header.items < 1 \/ header.magic # "HICSLICE"
               \/ header.items < 2 \/ header.resolution <= 0
       THEN /\ pc' = "Failed"
            /\ raw_file' = Closed(Opened(raw_file))
            /\ UNCHANGED resolution
       ELSE /\ pc' = "HeaderRead"
            /\ raw_file' = Opened(raw_file)
            /\ resolution' = header.resolution
    /\ UNCHANGED <<args, header, all_bedpe_entries, all_roi, all_indices, all_matrices,
                   all_rowSums, all_colSums, numChromosomes, chromosomeKeyToName,
                   coverage, record, contact_count, bytesRead, consumed>>
    /\ UNCHANGED unitVars
    /\ UNCHANGED bedVars

\* lines 92-120: the indexes, the matrices and the sums of every set
BuildIndexes ==
    /\ pc = "HeaderRead"
    /\ all_roi' = [i \in DOMAIN all_bedpe_entries |->
                     RegionsOfInterest(all_bedpe_entries[i], resolution,
                                       args.window_size, args.isInter)]
    /\ all_indices' = [i \in DOMAIN all_bedpe_entries |->
                         LoopIndex(all_bedpe_entries[i], resolution)]
    /\ all_bedpe_entries' = <<>>
    /\ all_matrices' = [i \in DOMAIN all_bedpe_entries |->
                          APAMatrix(args.window_size * 2 + 1)]
    /\ all_rowSums' = [i \in DOMAIN all_bedpe_entries |->
                         ZeroVector(args.window_size * 2 + 1)]
    /\ all_colSums' = [i \in DOMAIN all_bedpe_entries |->
                         ZeroVector(args.window_size * 2 + 1)]
    /\ pc' = "IndexesBuilt"
    /\ UNCHANGED <<args, header, resolution, numChromosomes, chromosomeKeyToName,
                   coverage, record, contact_count, bytesRead, raw_file, consumed>>
    /\ UNCHANGED unitVars
    /\ UNCHANGED bedVars

\* mutant: the chromosome count is not checked
ReadChromosomeCountUnchecked ==
    /\ pc = "IndexesBuilt"
    /\ IF header.items < 3
       THEN pc' = "Failed" /\ raw_file' = Closed(raw_file) /\ UNCHANGED numChromosomes
       ELSE /\ pc' = "Dictionary"
            /\ numChromosomes' = header.numChromosomes
            /\ UNCHANGED raw_file
    /\ UNCHANGED <<args, header, all_bedpe_entries, resolution, all_roi, all_indices,
                   all_matrices, all_rowSums, all_colSums, chromosomeKeyToName,
                   coverage, record, contact_count, bytesRead, consumed>>
    /\ UNCHANGED unitVars
    /\ UNCHANGED bedVars

\* lines 124-138: the chromosome count
ReadChromosomeCount ==
    /\ pc = "IndexesBuilt"
    /\ IF header.items < 3 \/ header.numChromosomes <= 0
       THEN pc' = "Failed" /\ raw_file' = Closed(raw_file) /\ UNCHANGED numChromosomes
       ELSE /\ pc' = "Dictionary"
            /\ numChromosomes' = header.numChromosomes
            /\ UNCHANGED raw_file
    /\ UNCHANGED <<args, header, all_bedpe_entries, resolution, all_roi, all_indices,
                   all_matrices, all_rowSums, all_colSums, chromosomeKeyToName,
                   coverage, record, contact_count, bytesRead, consumed>>
    /\ UNCHANGED unitVars
    /\ UNCHANGED bedVars

\* lines 143-183: the dictionary entries, then the coverage accumulator
\* A read that comes back short throws; so does the nameBuffer of a
\* nameLength below -1.  With nameLength = -1 the buffer is empty and the read
\* of the name is asked for SIZE_MAX bytes: the run throws, dies, or goes on
\* with whatever the empty buffer yields as a name.
ReadChromosomes ==
    /\ pc = "Dictionary"
    /\ \E outcome \in {"throws", "dies", "goes on"} :
        IF \/ header.items < 3 + 3 * numChromosomes
           \/ \E i \in 1..numChromosomes : header.chroms[i].nameLength < -1
           \/ /\ \E i \in 1..numChromosomes : header.chroms[i].nameLength = -1
              /\ outcome # "goes on"
        THEN /\ pc' = IF /\ outcome = "dies"
                         /\ header.items >= 3 + 3 * numChromosomes
                         /\ \A i \in 1..numChromosomes : header.chroms[i].nameLength >= -1
                      THEN "Crashed" ELSE "Failed"
             \* the catch block closes the stream; a run that dies does not
             /\ raw_file' = IF pc' = "Failed" THEN Closed(raw_file) ELSE raw_file
             /\ UNCHANGED <<chromosomeKeyToName, coverage>>
        ELSE /\ chromosomeKeyToName' = Dictionary(header.chroms, numChromosomes)
             /\ coverage' = CoverageVectors(resolution)
             /\ pc' = "Streaming"
             /\ UNCHANGED raw_file
    /\ UNCHANGED <<args, header, all_bedpe_entries, resolution, all_roi, all_indices,
                   all_matrices, all_rowSums, all_colSums, numChromosomes,
                   record, contact_count, bytesRead, consumed>>
    /\ UNCHANGED unitVars
    /\ UNCHANGED bedVars

\* lines 198-274: one successful read and the processing of its record.  A
\* coverage write outside its vector either kills the run or goes astray.
ReadRecord ==
    /\ pc = "Streaming"
    /\ Len(consumed) < MaxRecords
    /\ \E n \in ReadSizes, rec \in RecordChoices, dies \in BOOLEAN :
        /\ ReadSucceeded(n)
        /\ bytesRead' = n
        /\ record' = rec
        /\ consumed' = IF n = record_size THEN Append(consumed, rec) ELSE consumed
        /\ IF dies /\ CoverageOutOfBounds(St, Cfg, rec)
           THEN /\ pc' = "Crashed"
                /\ UNCHANGED <<coverage, all_matrices, chromosomeKeyToName>>
                /\ contact_count' = contact_count + 1
           ELSE LET st == ProcessRecord(St, Cfg, rec)
                IN  /\ pc' = "Streaming"
                    /\ coverage' = st.coverage
                    /\ all_matrices' = st.all_matrices
                    /\ chromosomeKeyToName' = st.chromosomeKeyToName
                    /\ contact_count' = st.contact_count
    /\ UNCHANGED <<args, header, all_bedpe_entries, resolution, all_roi, all_indices,
                   all_rowSums, all_colSums, numChromosomes, raw_file>>
    /\ UNCHANGED unitVars
    /\ UNCHANGED bedVars

\* lines 198-200 failing, then lines 280-311: normalization and return
EndOfStream ==
    /\ pc = "Streaming"
    /\ \E n \in ReadSizes :
        /\ ~ReadSucceeded(n)
        /\ bytesRead' = n
    /\ all_roi' = <<>>
    /\ all_rowSums' = [i \in DOMAIN all_matrices |->
                         ScaledSums(all_rowSums[i], all_indices, i, coverage,
                                    resolution, args.window_size, 1)]
    /\ all_colSums' = [i \in DOMAIN all_matrices |->
                         ScaledSums(all_colSums[i], all_indices, i, coverage,
                                    resolution, args.window_size, 2)]
    /\ all_matrices' = NormalizeAll(St, Cfg, all_rowSums, all_colSums)
    /\ raw_file' = Closed(raw_file)
    /\ pc' = "Done"
    /\ UNCHANGED <<args, header, all_bedpe_entries, resolution, all_indices,
                   numChromosomes, chromosomeKeyToName, coverage, record,
                   contact_count, consumed>>
    /\ UNCHANGED unitVars
    /\ UNCHANGED bedVars

Next ==
    \/ ReadResolution
    \/ BuildIndexes
    \/ ReadChromosomeCount
    \/ ReadChromosomes
    \/ ReadRecord
    \/ EndOfStream

Spec == Init /\ [][Next]_vars

(***************************************************************************)
(* The same call on inputs at the edges of the distance bounds, of the     *)
(* coordinate range and of the dictionary.                                 *)
(***************************************************************************)
\* a pair the anchor generator makes for distances above 11200: the forward
\* anchor ends before the reverse one starts, the midpoints lie 11400 apart
LoopGen == Bedpe("chr1", 48000, 49000, "chr1", 59900, 59900)

\* anchors beyond 2^30 bp
LoopHuge == Bedpe("chr1", 2000000000, 2000000000, "chr1", 2000000000, 2000000000)

EdgeArgChoices ==
    { StandardArgs,
      Args(1, FALSE, 11200, 2000000, << <<LoopGen>> >>),
      Args(1, FALSE, 0, 4500, << <<LoopFar>> >>),
      Args(1, FALSE, 0, 5500, << <<LoopFar>> >>),
      Args(1, TRUE, 20000, 30000, << <<LoopInter>> >>),
      Args(1, FALSE, 0, 2000000, << <<LoopHuge>> >>) }

\* two keys that carry the same name
SameNameHeader ==
    Header("HICSLICE", 1000, 2, <<Chrom("chr1", 1), Chrom("chr1", 2)>>)

EdgeHeaderChoices == {StandardHeader, SameNameHeader}

InitEdge ==
    /\ UnitOff
    /\ BedOff
    /\ pc = "Init"
    /\ args \in EdgeArgChoices
    /\ header \in EdgeHeaderChoices
    /\ args = StandardArgs \/ header = StandardHeader
    /\ all_bedpe_entries = args.all_bedpe_entries
    /\ resolution = 0
    /\ all_roi = <<>>
    /\ all_indices = <<>>
    /\ all_matrices = <<>>
    /\ all_rowSums = <<>>
    /\ all_colSums = <<>>
    /\ numChromosomes = 0
    /\ chromosomeKeyToName = [k \in {} |-> ""]
    /\ coverage = CoverageVectors(1)
    /\ record = NoRecord
    /\ contact_count = 0
    /\ bytesRead = 0
    /\ raw_file = Unopened
    /\ consumed = <<>>

SpecEdge == InitEdge /\ [][Next]_vars

(***************************************************************************)
(* APAMatrix and its sum vectors on their own: add, scaleByAverage and     *)
(* normalize applied to inputs drawn from small sets.                      *)
(***************************************************************************)
\* side of the matrix and length of the vectors
UnitWidth == 3

\* the process driving processSliceFile is not running
RunOff ==
    /\ pc = "Off"
    /\ args = Args(1, FALSE, 0, 0, <<>>)
    /\ header = Header("HICSLICE", 1, 0, <<>>)
    /\ all_bedpe_entries = <<>>
    /\ resolution = 0
    /\ all_roi = <<>>
    /\ all_indices = <<>>
    /\ all_matrices = <<>>
    /\ all_rowSums = <<>>
    /\ all_colSums = <<>>
    /\ numChromosomes = 0
    /\ chromosomeKeyToName = [k \in {} |-> ""]
    /\ coverage = CoverageVectors(1)
    /\ record = NoRecord
    /\ contact_count = 0
    /\ bytesRead = 0
    /\ raw_file = Unopened
    /\ consumed = <<>>

UnitIndex == 0..(UnitWidth - 1)
UnitCells == UnitIndex \X UnitIndex

\* float values a vector entry takes, and the vectors of UnitWidth entries
UnitValues == {Rat(-1, 1), RZero, Rat(3, 2), Rat(2, 1)}

Sparse(f) == [i \in {j \in DOMAIN f : f[j] # RZero} |-> f[i]]

UnitVectors ==
    {[size |-> UnitWidth, v |-> Sparse(f)] : f \in [UnitIndex -> UnitValues]}

\* the sums normalize is given: not positive, zero, or positive
NormValues == {Rat(-1, 1), RZero, Rat(3, 2)}

NormVectors ==
    {[size |-> UnitWidth, v |-> Sparse(f)] : f \in [UnitIndex -> NormValues]}

\* raw matrices of side UnitWidth
UnitMatrices ==
    {[width |-> UnitWidth,
      matrix |-> [rc \in S |-> RInt(rc[1] * UnitWidth + rc[2] + 1)]] :
        S \in {UnitCells, {}, {rc \in UnitCells : rc[1] = rc[2]},
               {rc \in UnitCells : rc[1] = 0}, {<<0, UnitWidth - 1>>}}}

\* arguments of one add call
UnitCoords == (-1)..UnitWidth
UnitAddValues == {RInt(1), RInt(-2)}

InitAdd ==
    /\ RunOff
    /\ BedOff
    /\ upc = "adding"
    /\ um = APAMatrix(UnitWidth)
    /\ urowSums = ZeroVector(UnitWidth)
    /\ ucolSums = ZeroVector(UnitWidth)
    /\ uadds = <<>>
    /\ uraw = APAMatrix(UnitWidth)
    /\ urow0 = ZeroVector(UnitWidth)

\* um.add(relX, relY, value)
UnitAdd ==
    /\ upc = "adding"
    /\ Len(uadds) < MaxAdds
    /\ \E relX \in UnitCoords, relY \in UnitCoords, value \in UnitAddValues :
        /\ um' = APAMatrixAdd(um, relX, relY, value)
        /\ uadds' = Append(uadds, <<relX, relY, value>>)
    /\ UNCHANGED <<upc, urowSums, ucolSums, uraw, urow0>>
    /\ UNCHANGED runVars
    /\ UNCHANGED bedVars

SpecAdd == InitAdd /\ [][UnitAdd]_vars

InitScale ==
    /\ RunOff
    /\ BedOff
    /\ upc = "sums"
    /\ um = APAMatrix(UnitWidth)
    /\ urowSums \in UnitVectors
    /\ ucolSums = ZeroVector(UnitWidth)
    /\ uadds = <<>>
    /\ uraw = APAMatrix(UnitWidth)
    /\ urow0 = urowSums

\* APAMatrix::scaleByAverage(urowSums)
UnitScale ==
    /\ upc = "sums"
    /\ urowSums' = scaleByAverage(urowSums)
    /\ upc' = "scaled"
    /\ UNCHANGED <<um, ucolSums, uadds, uraw, urow0>>
    /\ UNCHANGED runVars
    /\ UNCHANGED bedVars

SpecScale == InitScale /\ [][UnitScale]_vars

InitNormalize ==
    /\ RunOff
    /\ BedOff
    /\ upc = "normalizing"
    /\ um \in UnitMatrices
    /\ urowSums \in NormVectors
    /\ ucolSums \in NormVectors
    /\ uadds = <<>>
    /\ uraw = um
    /\ urow0 = urowSums

\* um.normalize(urowSums, ucolSums)
UnitNormalize ==
    /\ upc = "normalizing"
    /\ um' = normalize(um, urowSums, ucolSums)
    /\ upc' = "normalized"
    /\ UNCHANGED <<urowSums, ucolSums, uadds, uraw, urow0>>
    /\ UNCHANGED runVars
    /\ UNCHANGED bedVars

SpecNormalize == InitNormalize /\ [][UnitNormalize]_vars

(***************************************************************************)
(* CoverageVectors on its own: add and addLocalSums called with arguments  *)
(* drawn from small sets, the sums being a vector of UnitWidth entries.    *)
(***************************************************************************)
\* the resolution the accumulator is constructed with: chr1 has 25 bins, a
\* chromosome that is not in DEFAULT_CHROM_SIZES has 2
UnitResolution == 10000000

UnitChroms == {"chr1", "chrM"}
UnitBins == {-1, 0, 2}
UnitCoverageValues == {RInt(2), RInt(-1), RZero}

\* the chromosomes and first bins addLocalSums is asked for
UnitQueryChroms == {"chr1", "chrM", "chr2"}
UnitBinStarts == {-2, -1, 0, 1, MaxInt32 - 1}

\* sums the caller hands in: zeroed, or holding what earlier loops added
UnitSums ==
    {ZeroVector(UnitWidth), [ZeroVector(UnitWidth) EXCEPT !.v = (0 :> RInt(1))]}

InitCoverage ==
    /\ BedOff
    /\ pc = "Off"
    /\ args = Args(1, FALSE, 0, 0, <<>>)
    /\ header = Header("HICSLICE", 1, 0, <<>>)
    /\ all_bedpe_entries = <<>>
    /\ resolution = UnitResolution
    /\ all_roi = <<>>
    /\ all_indices = <<>>
    /\ all_matrices = <<>>
    /\ all_rowSums = <<>>
    /\ all_colSums = <<>>
    /\ numChromosomes = 0
    /\ chromosomeKeyToName = [k \in {} |-> ""]
    /\ coverage = CoverageVectors(UnitResolution)
    /\ record = NoRecord
    /\ contact_count = 0
    /\ bytesRead = 0
    /\ raw_file = Unopened
    /\ consumed = <<>>
    /\ upc = "covering"
    /\ um = APAMatrix(UnitWidth)
    /\ urowSums \in UnitSums
    /\ ucolSums = ZeroVector(UnitWidth)
    /\ uadds = <<>>
    /\ uraw = APAMatrix(UnitWidth)
    /\ urow0 = urowSums

\* coverage.add(chrom, bin, value).  A write outside the vector either kills
\* the caller or goes astray.
UnitCoverageAdd ==
    /\ upc = "covering"
    /\ Len(uadds) < MaxAdds
    /\ \E chrom \in UnitChroms, bin \in UnitBins, value \in UnitCoverageValues,
          dies \in BOOLEAN :
        /\ uadds' = Append(uadds, <<"add", chrom, bin, value>>)
        /\ IF dies /\ ~CoverageAddInBounds(coverage, chrom, bin)
           THEN upc' = "crashed" /\ UNCHANGED coverage
           ELSE upc' = upc /\ coverage' = CoverageAdd(coverage, chrom, bin, value)
    /\ UNCHANGED <<pc, args, header, all_bedpe_entries, resolution, all_roi, all_indices,
                   all_matrices, all_rowSums, all_colSums, numChromosomes,
                   chromosomeKeyToName, record, contact_count, bytesRead, raw_file,
                   consumed>>
    /\ UNCHANGED <<um, urowSums, ucolSums, uraw, urow0>>
    /\ UNCHANGED bedVars

\* coverage.addLocalSums(urowSums, chrom, binStart)
UnitLocalSums ==
    /\ upc = "covering"
    /\ Len(uadds) < MaxAdds
    /\ \E chrom \in UnitQueryChroms, binStart \in UnitBinStarts :
        /\ uadds' = Append(uadds, <<"addLocalSums", chrom, binStart>>)
        /\ urowSums' = addLocalSums(urowSums, coverage, chrom, binStart)
    /\ UNCHANGED runVars
    /\ UNCHANGED <<upc, um, ucolSums, uraw, urow0>>
    /\ UNCHANGED bedVars

SpecCoverage == InitCoverage /\ [][UnitCoverageAdd \/ UnitLocalSums]_vars

(***************************************************************************)
(* BedpeBuilder (src/bedpe_builder.cpp): buildBedpe pairs the anchors of a *)
(* forward and a reverse BED file.  A BED file is the sequence of its      *)
(* lines, a BedEntry is [chrom, start, end].                               *)
(***************************************************************************)
\* number of lines of the forward BED file at most
MaxLines == 2

BedEntry(c, s, e) == [chrom |-> c, start |-> s, end |-> e]

getMid(entry) == LongMid(entry.start, entry.end)

\* the chromosome names of the model in the order of std::string
ChromNames == <<"chr1", "chr2", "chrX">>

NameIndex(chrom) == CHOOSE i \in DOMAIN ChromNames : ChromNames[i] = chrom

\* std::stoi(chrom.substr(3)) of the names made of chr and digits
ChromNumber == [c \in {"chr1", "chr2"} |-> IF c = "chr1" THEN 1 ELSE 2]

isStandardChromosome(chrom) == chrom \in DOMAIN ChromNumber

RemoveAt(s, i) == SubSeq(s, 1, i - 1) \o SubSeq(s, i + 1, Len(s))

RECURSIVE SortedByMid(_)
\* what std::sort with the comparison a.getMid() < b.getMid() can leave: the
\* order of entries with equal midpoints is unspecified
SortedByMid(s) ==
    IF s = <<>> THEN {<<>>}
    ELSE UNION {{<<e>> \o t : t \in SortedByMid(RemoveAt(s, CHOOSE i \in DOMAIN s : s[i] = e))} :
                    e \in {x \in Range(s) : \A y \in Range(s) : ~(getMid(y) < getMid(x))}}

\* the maps loadBedFile can return for a file: the entries of each chromosome
\* sorted by midpoint
loadBedFile(file) ==
    LET chroms == {file[i].chrom : i \in DOMAIN file}
        Of(c) == LET Test(e) == e.chrom = c IN SelectSeq(file, Test)
    IN  {d \in [chroms -> UNION {SortedByMid(Of(c)) : c \in chroms}] :
            \A c \in chroms : d[c] \in SortedByMid(Of(c))}

\* the test of generateIntraChromosomal on one forward and one reverse anchor
IntraPair(forward, reverse, minD, maxD) ==
    /\ forward.end < reverse.start
    /\ LET dist == getMid(reverse) - getMid(forward)
       IN  dist > minD /\ dist <= maxD

\* forwards x reverses in the order of the two nested loops
AllPairs(forwards, reverses) ==
    [k \in 1..(Len(forwards) * Len(reverses)) |->
        <<forwards[((k - 1) \div Len(reverses)) + 1],
          reverses[((k - 1) % Len(reverses)) + 1]>>]

generateIntraChromosomal(chrom, forwards, reverses, minD, maxD) ==
    LET Test(p) == IntraPair(p[1], p[2], minD, maxD)
        kept == SelectSeq(AllPairs(forwards, reverses), Test)
    IN  [k \in DOMAIN kept |->
            Bedpe(chrom, kept[k][1].start, kept[k][1].end,
                  chrom, kept[k][2].start, kept[k][2].end)]

generateInterChromosomal(chrom1, chrom2, forwards, reverses) ==
    IF chrom1 = chrom2 \/ ~isStandardChromosome(chrom1) \/ ~isStandardChromosome(chrom2)
    THEN <<>>
    ELSE IF ChromNumber[chrom1] > ChromNumber[chrom2] THEN <<>>
    ELSE LET pairs == AllPairs(forwards, reverses)
         IN  [k \in DOMAIN pairs |->
                 Bedpe(chrom1, pairs[k][1].start, pairs[k][1].end,
                       chrom2, pairs[k][2].start, pairs[k][2].end)]

RECURSIVE Concat(_)
Concat(ss) == IF ss = <<>> THEN <<>> ELSE Head(ss) \o Concat(Tail(ss))

\* the keys of a std::map of chromosomes in the order it is iterated
KeysInOrder(data) ==
    LET Test(c) == c \in DOMAIN data IN SelectSeq(ChromNames, Test)

\* all_results before it is sorted (lines 138-162)
GeneratedResults(b, fd, rd) ==
    LET fc == KeysInOrder(fd)
        rc == KeysInOrder(rd)
    IN  IF b.isInter
        THEN Concat([k \in 1..(Len(fc) * Len(rc)) |->
                        LET c1 == fc[((k - 1) \div Len(rc)) + 1]
                            c2 == rc[((k - 1) % Len(rc)) + 1]
                        IN  IF c1 # c2
                            THEN generateInterChromosomal(c1, c2, fd[c1], rd[c2])
                            ELSE <<>>])
        ELSE Concat([k \in 1..Len(fc) |->
                        IF fc[k] \in DOMAIN rd
                        THEN generateIntraChromosomal(fc[k], fd[fc[k]], rd[fc[k]],
                                                      b.min_genome_dist, b.max_genome_dist)
                        ELSE <<>>])

\* BedpeEntry::operator<
BedpeLess(a, b) ==
    IF a.chrom1 # b.chrom1 THEN NameIndex(a.chrom1) < NameIndex(b.chrom1)
    ELSE IF a.chrom2 # b.chrom2 THEN NameIndex(a.chrom2) < NameIndex(b.chrom2)
    ELSE IF a.start1 # b.start1 THEN a.start1 < b.start1
    ELSE a.start2 < b.start2

\* BedpeEntry::operator==
BedpeEqual(a, b) ==
    /\ a.chrom1 = b.chrom1 /\ a.start1 = b.start1 /\ a.end1 = b.end1
    /\ a.chrom2 = b.chrom2 /\ a.start2 = b.start2 /\ a.end2 = b.end2

RECURSIVE SortedResults(_)
\* what std::sort with operator< can leave: the order of entries that are
\* equivalent under operator< is unspecified
SortedResults(s) ==
    IF s = <<>> THEN {<<>>}
    ELSE UNION {{<<e>> \o t : t \in SortedResults(RemoveAt(s, CHOOSE i \in DOMAIN s : s[i] = e))} :
                    e \in {x \in Range(s) : \A y \in Range(s) : ~BedpeLess(y, x)}}

RECURSIVE Unique(_)
\* std::unique and erase: of every run of consecutive equal entries the
\* first is kept
Unique(s) ==
    IF Len(s) <= 1 THEN s
    ELSE IF BedpeEqual(s[1], s[2]) THEN Unique(Tail(s))
    ELSE <<s[1]>> \o Unique(Tail(s))

\* the lines of the BED files
ForwardLines ==
    {BedEntry("chr1", 100, 200), BedEntry("chr1", 100, 300), BedEntry("chr2", 100, 200)}

RECURSIVE FilesOf(_)
\* the files of n lines
FilesOf(n) ==
    IF n = 0 THEN {<<>>}
    ELSE {Append(f, line) : f \in FilesOf(n - 1), line \in ForwardLines}

ForwardFiles == UNION {FilesOf(n) : n \in 0..MaxLines}

ReverseFiles ==
    { <<BedEntry("chr1", 1000, 1100)>>,
      <<BedEntry("chr1", 1000, 1100), BedEntry("chr1", 1000, 1200)>>,
      <<BedEntry("chr2", 1000, 1100), BedEntry("chr1", 1000, 1100),
        BedEntry("chr1", 1000, 1100)>>,
      <<BedEntry("chr1", 150, 400), BedEntry("chrX", 10, 20)>> }

\* min_dist, max_dist, isInter
BuilderSettings == {<<0, 1000000, FALSE>>, <<900, 950, FALSE>>, <<0, 0, TRUE>>}

InitBedpe ==
    /\ RunOff
    /\ UnitOff
    /\ bpc = "Constructed"
    /\ \E f \in ForwardFiles, r \in ReverseFiles, b \in BuilderSettings :
          builder = [forward_bed_file |-> f, reverse_bed_file |-> r,
                     min_genome_dist |-> b[1], max_genome_dist |-> b[2],
                     isInter |-> b[3]]
    /\ forward_data = <<>>
    /\ reverse_data = <<>>
    /\ all_results = <<>>

\* lines 135-136
LoadBedFiles ==
    /\ bpc = "Constructed"
    /\ forward_data' \in loadBedFile(builder.forward_bed_file)
    /\ reverse_data' \in loadBedFile(builder.reverse_bed_file)
    /\ bpc' = "Loaded"
    /\ UNCHANGED <<builder, all_results>>
    /\ UNCHANGED runVars
    /\ UNCHANGED unitVars

\* lines 138-162
GenerateResults ==
    /\ bpc = "Loaded"
    /\ all_results' = GeneratedResults(builder, forward_data, reverse_data)
    /\ bpc' = "Generated"
    /\ UNCHANGED <<builder, forward_data, reverse_data>>
    /\ UNCHANGED runVars
    /\ UNCHANGED unitVars

\* line 165
SortResults ==
    /\ bpc = "Generated"
    /\ all_results' \in SortedResults(all_results)
    /\ bpc' = "Sorted"
    /\ UNCHANGED <<builder, forward_data, reverse_data>>
    /\ UNCHANGED runVars
    /\ UNCHANGED unitVars

\* lines 168-171
UniqueResults ==
    /\ bpc = "Sorted"
    /\ all_results' = Unique(all_results)
    /\ bpc' = "Returned"
    /\ UNCHANGED <<builder, forward_data, reverse_data>>
    /\ UNCHANGED runVars
    /\ UNCHANGED unitVars

NextBedpe ==
    \/ LoadBedFiles
    \/ GenerateResults
    \/ SortResults
    \/ UniqueResults

SpecBedpe == InitBedpe /\ [][NextBedpe]_vars

(***************************************************************************)
(* Claims.                                                                 *)
(***************************************************************************)
\* chromosome name a record key stands for
NameOf(key) == Lookup(chromosomeKeyToName, key)

\* exact center bins of loop l of set s, as the record loop computes them
CenterX(s, l) ==
    CenterBin(args.all_bedpe_entries[s][l].start1, args.all_bedpe_entries[s][l].end1,
              resolution)
CenterY(s, l) ==
    CenterBin(args.all_bedpe_entries[s][l].start2, args.all_bedpe_entries[s][l].end2,
              resolution)

\* record r passes the value, mode and distance filters
PassesFilters(r) ==
    /\ ~ValueRejected(r.value)
    /\ ~ModeRejected(args.isInter, NameOf(r.chr1Key), NameOf(r.chr2Key))
    /\ ~DistanceRejected(Cfg, r)

\* record r lies in the window of loop l of set s, on the loop's chromosomes
InWindow(r, s, l) ==
    /\ NameOf(r.chr1Key) = args.all_bedpe_entries[s][l].chrom1
    /\ NameOf(r.chr2Key) = args.all_bedpe_entries[s][l].chrom2
    /\ Abs(r.binX - CenterX(s, l)) <= args.window_size
    /\ Abs(r.binY - CenterY(s, l)) <= args.window_size

\* the (record, loop) pairs of set s that contribute, and the cell of each
Pairs(s) ==
    {p \in (1..Len(consumed)) \X (1..Len(args.all_bedpe_entries[s])) :
        PassesFilters(consumed[p[1]]) /\ InWindow(consumed[p[1]], s, p[2])}

PairCell(s, p) ==
    <<consumed[p[1]].binX - (CenterX(s, p[2]) - args.window_size),
      consumed[p[1]].binY - (CenterY(s, p[2]) - args.window_size)>>

BruteForce(s) ==
    [c \in {PairCell(s, p) : p \in Pairs(s)} |->
        RSum([p \in Pairs(s) |-> consumed[p[1]].value.q],
             {p \in Pairs(s) : PairCell(s, p) = c})]

\* C1: whatever records have been consumed, the un-normalized matrix of every
\* loop set is the brute-force sum over all (record, loop) pairs in which the
\* record passes the filters and lies in the loop's window on both axes.
C1_MatrixIsBruteForceSum ==
    pc = "Streaming" =>
        \A s \in DOMAIN all_matrices : all_matrices[s].matrix = BruteForce(s)

\* bins at and just beyond the edges of the window around a center bin
EdgeBins(center) ==
    {center - args.window_size - 1, center - args.window_size, center,
     center + args.window_size, center + args.window_size + 1}

\* a record on the chromosomes of loop l of set s at bins (binX, binY) agrees
\* with the mode and passes the exact per-axis test of the record loop
ExactMatch(s, l, binX, binY) ==
    /\ ~ModeRejected(args.isInter, args.all_bedpe_entries[s][l].chrom1,
                     args.all_bedpe_entries[s][l].chrom2)
    /\ Abs(binX - CenterX(s, l)) <= args.window_size
    /\ Abs(binY - CenterY(s, l)) <= args.window_size

Probably(s, l, binX, binY) ==
    probablyContainsRecord(all_roi[s], args.all_bedpe_entries[s][l].chrom1,
                           args.all_bedpe_entries[s][l].chrom2, binX, binY)

\* C2 as stated: probablyContainsRecord has no false negatives, for every loop
\* of the catalog and every record that agrees with the mode, has the loop's
\* chromosomes and passes the exact window test, bins below 0 included.
C2_NoFalseNegativesAnyBin ==
    \A s \in DOMAIN all_roi : \A l \in DOMAIN args.all_bedpe_entries[s] :
        \A binX \in EdgeBins(CenterX(s, l)), binY \in EdgeBins(CenterY(s, l)) :
            ExactMatch(s, l, binX, binY) => Probably(s, l, binX, binY)

\* C2 amended: probablyContainsRecord has no false negatives for every record
\* whose two bins are not negative (bins below 0 are never indexed).
C2_NoFalseNegatives ==
    \A s \in DOMAIN all_roi : \A l \in DOMAIN args.all_bedpe_entries[s] :
        \A binX \in EdgeBins(CenterX(s, l)), binY \in EdgeBins(CenterY(s, l)) :
            (ExactMatch(s, l, binX, binY) /\ binX >= 0 /\ binY >= 0)
                => Probably(s, l, binX, binY)

\* a record at the edge of a loop's window passed probablyContainsRecord and
\* was accumulated
C2_Witness ==
    /\ pc = "Streaming"
    /\ \E s \in DOMAIN all_roi : \E l \in DOMAIN args.all_bedpe_entries[s] :
        /\ PassesFilters(record)
        /\ InWindow(record, s, l)
        /\ record.binX = CenterX(s, l) - args.window_size
        /\ record.binX >= 0 /\ record.binY >= 0
        /\ probablyContainsRecord(all_roi[s], NameOf(record.chr1Key),
                                  NameOf(record.chr2Key), record.binX, record.binY)
        /\ all_matrices[s].matrix # Empty

(***************************************************************************)
(* Whole runs replayed from the history, for the claims that compare runs. *)
(***************************************************************************)
\* the step's read-only part for a call with the loop sets `sets`
CfgOf(sets) ==
    [window_size |-> args.window_size, isInter |-> args.isInter,
     min_genome_dist |-> args.min_genome_dist, max_genome_dist |-> args.max_genome_dist,
     resolution |-> resolution,
     all_roi |-> [i \in DOMAIN sets |->
                    RegionsOfInterest(sets[i], resolution, args.window_size, args.isInter)],
     all_indices |-> [i \in DOMAIN sets |-> LoopIndex(sets[i], resolution)]]

\* the state in which such a call enters the record loop
StartOf(sets) ==
    [coverage |-> CoverageVectors(resolution),
     all_matrices |-> [i \in DOMAIN sets |-> APAMatrix(args.window_size * 2 + 1)],
     chromosomeKeyToName |-> Dictionary(header.chroms, numChromosomes),
     contact_count |-> 0]

RECURSIVE RunFrom(_, _, _, _)
\* the record loop over records[i..], none of them killing the run
RunFrom(st, cfg, records, i) ==
    IF i > Len(records) THEN st
    ELSE RunFrom(ProcessRecord(st, cfg, records[i]), cfg, records, i + 1)

ZeroSums(sets) == [i \in DOMAIN sets |-> ZeroVector(args.window_size * 2 + 1)]

\* the matrices such a call returns for the stream `records`
Returned(sets, records) ==
    LET cfg == CfgOf(sets)
    IN  NormalizeAll(RunFrom(StartOf(sets), cfg, records, 1), cfg,
                     ZeroSums(sets), ZeroSums(sets))

\* C3: the matrix a set gets when several sets are processed in one pass is
\* the matrix it gets when it is run alone against the same stream.
C3_SetsAreIndependent ==
    pc = "Done" =>
        \A s \in DOMAIN all_matrices :
            all_matrices[s] = Returned(<<args.all_bedpe_entries[s]>>, consumed)[1]

\* two different sets were processed together and both matrices are filled
C3_Witness ==
    /\ pc = "Done"
    /\ Len(all_matrices) = 2
    /\ args.all_bedpe_entries[1] # args.all_bedpe_entries[2]
    /\ all_matrices[1].matrix # Empty
    /\ all_matrices[2].matrix # Empty
    /\ all_matrices[1] # all_matrices[2]

\* the value is NaN, infinite, zero or negative
NotPositiveFinite(value) == value.k # "fin" \/ value.q[1] <= 0

\* C4: a record whose value is NaN, infinite, zero or negative leaves the
\* coverage and every matrix as they were, and the loop goes on.
C4_RejectedValueNoEffect ==
    [][(consumed' # consumed /\ NotPositiveFinite(record'.value)) =>
            /\ coverage' = coverage
            /\ all_matrices' = all_matrices
            /\ pc' = "Streaming"]_vars

\* a record with a rejected value was read and the record after it was
\* accumulated
C4_Witness ==
    /\ pc = "Streaming"
    /\ Len(consumed) = 2
    /\ NotPositiveFinite(consumed[1].value)
    /\ ~NotPositiveFinite(consumed[2].value)
    /\ \E s \in DOMAIN all_matrices : all_matrices[s].matrix # Empty

\* C5: trailing bytes shorter than a record end the pass without error, and
\* the coverage and the returned matrices are those of the complete records.
C5_TrailingBytesIgnored ==
    /\ pc = "Done" =>
        LET cfg == CfgOf(args.all_bedpe_entries)
            run == RunFrom(StartOf(args.all_bedpe_entries), cfg, consumed, 1)
        IN  /\ coverage = run.coverage
            /\ all_matrices =
                  NormalizeAll(run, cfg, ZeroSums(args.all_bedpe_entries),
                               ZeroSums(args.all_bedpe_entries))
    /\ pc = "Failed" => consumed = <<>> /\ bytesRead = 0

\* the stream ended inside a record after a record had been accumulated
C5_Witness ==
    /\ pc = "Done"
    /\ bytesRead > 0
    /\ bytesRead < record_size
    /\ \E s \in DOMAIN all_matrices : all_matrices[s].matrix # Empty

\* C6: an accepted record on the diagonal (same chromosome, same bin) adds its
\* value to the coverage of that bin once; any other accepted record adds it
\* to the coverage of each of its two ends.
C6_CoverageOncePerEnd ==
    [][(consumed' # consumed /\ Accepted(St, Cfg, record')) =>
          LET chr1 == NameOf(record'.chr1Key)
              chr2 == NameOf(record'.chr2Key)
              v == record'.value.q
          IN  /\ CoverageAt(coverage', chr1, record'.binX) =
                    RAdd(CoverageAt(coverage, chr1, record'.binX), v)
              /\ CoverageAt(coverage', chr2, record'.binY) =
                    RAdd(CoverageAt(coverage, chr2, record'.binY), v)]_vars

\* sum of the values the add calls made so far put at (x, y)
AddedAt(x, y) ==
    RSum([i \in DOMAIN uadds |-> uadds[i][3]],
         {i \in DOMAIN uadds : uadds[i][1] = x /\ uadds[i][2] = y})

\* C7: after any sequence of add calls every cell inside the matrix holds the
\* sum of the values added at it, and an add outside [0, width) changes no
\* cell and stores nothing outside the matrix.
C7_AddSumsInBounds ==
    upc = "adding" =>
        /\ \A rc \in UnitCells : Cell(um, rc[1], rc[2]) = AddedAt(rc[1], rc[2])
        /\ DOMAIN um.matrix \subseteq UnitCells

\* an add inside the matrix was followed by an add outside it
C7_Witness ==
    /\ upc = "adding"
    /\ Len(uadds) = 2
    /\ <<uadds[1][1], uadds[1][2]>> \in UnitCells
    /\ uadds[2][1] = UnitWidth
    /\ Cell(um, uadds[1][1], uadds[1][2]) = uadds[1][3]

\* multiplying every finite record value by k
Scaled(k, records) ==
    [i \in DOMAIN records |-> [records[i] EXCEPT !.value.q = RMul(RInt(k), @)]]

ScaleFactors == {2, 4}

\* the sums of set s before scaleByAverage, for the coverage of state st
RawSums(st, s, axis) ==
    LocalSums(ZeroVector(args.window_size * 2 + 1), AllLoops(all_indices[s]), 1,
              st.coverage, resolution, args.window_size, axis)

Times(k, f) == [i \in DOMAIN f |-> RMul(RInt(k), f[i])]

\* the raw cells and the raw sums of the run on the k-fold stream are k times
\* those of the run on the stream
RawScales(k, run) ==
    \A s \in DOMAIN all_matrices :
        /\ run.all_matrices[s].matrix = Times(k, all_matrices[s].matrix)
        /\ \A axis \in {1, 2} :
             RawSums(run, s, axis).v = Times(k, RawSums(St, s, axis).v)

ScaledRun(k) ==
    RunFrom(StartOf(args.all_bedpe_entries), Cfg, Scaled(k, consumed), 1)

\* C8 as claimed: multiplying the value of every record by k > 0 multiplies
\* the raw cells and the raw rowSums and colSums by k and leaves every cell of
\* the normalized matrices as it is.
C8_ScaleInvariant ==
    pc = "Streaming" =>
        \A k \in ScaleFactors :
            /\ RawScales(k, ScaledRun(k))
            /\ NormalizeAll(ScaledRun(k), Cfg, all_rowSums, all_colSums) =
                   NormalizeAll(St, Cfg, all_rowSums, all_colSums)

\* C8 as amended: multiplying the value of every record by k > 0 multiplies
\* the raw cells and the raw rowSums and colSums by k, leaves the rowSums and
\* colSums scaled by their average as they are, and multiplies every cell of
\* the normalized matrices by k (cells that are 0 stay 0).
C8_ScaleLinear ==
    pc = "Streaming" =>
        \A k \in ScaleFactors :
            /\ RawScales(k, ScaledRun(k))
            /\ \A s \in DOMAIN all_matrices : \A axis \in {1, 2} :
                  scaleByAverage(RawSums(ScaledRun(k), s, axis)) =
                      scaleByAverage(RawSums(St, s, axis))
            /\ \A s \in DOMAIN all_matrices :
                  NormalizeAll(ScaledRun(k), Cfg, all_rowSums, all_colSums)[s].matrix =
                      Times(k, NormalizeAll(St, Cfg, all_rowSums, all_colSums)[s].matrix)

\* some normalized cell is not 0, its row and column sums differing from 1
C8_Witness ==
    /\ pc = "Streaming"
    /\ \E s \in DOMAIN all_matrices :
          /\ NormalizeAll(St, Cfg, all_rowSums, all_colSums)[s].matrix # Empty
          /\ NormalizeAll(St, Cfg, all_rowSums, all_colSums)[s].matrix #
                 all_matrices[s].matrix

\* mean of the strictly positive entries of a vector
Positive(vec) == {i \in 0..(vec.size - 1) : At(vec, i)[1] > 0}
MeanOfPositive(vec) ==
    RDiv(RSum([i \in Positive(vec) |-> At(vec, i)], Positive(vec)),
         RInt(Cardinality(Positive(vec))))

C10_Normalize ==
    upc = "normalized" =>
        \A rc \in UnitCells :
            LET product == RMul(At(urowSums, rc[1]), At(ucolSums, rc[2]))
            IN  Cell(um, rc[1], rc[2]) =
                    IF product[1] > 0 THEN RDiv(Cell(uraw, rc[1], rc[2]), product)
                    ELSE RZero

\* a full matrix was normalized with different row and column sums, one of
\* the products not being positive
C10_Witness ==
    /\ upc = "normalized"
    /\ DOMAIN uraw.matrix = UnitCells
    /\ urowSums # ucolSums
    /\ um.matrix # Empty
    /\ DOMAIN um.matrix # UnitCells

\* bin of the genomic midpoint of an anchor (BedEntry::getMid)
MidBin(lo, hi) == CDiv(LongMid(lo, hi), resolution)

\* C11: with one anchor pair in a set, one accepted record at the bins of the
\* pair's genomic midpoints, on the pair's chromosomes, puts its value in the
\* raw center cell (window, window) and leaves every other cell 0.
C11_CenterIsMidpointBin ==
    (pc = "Streaming" /\ Len(consumed) = 1) =>
        \A s \in DOMAIN all_matrices :
            LET set == args.all_bedpe_entries[s]
                r == consumed[1]
            IN  (/\ Len(set) = 1
                 /\ PassesFilters(r)
                 /\ NameOf(r.chr1Key) = set[1].chrom1
                 /\ NameOf(r.chr2Key) = set[1].chrom2
                 /\ r.binX = MidBin(set[1].start1, set[1].end1)
                 /\ r.binY = MidBin(set[1].start2, set[1].end2))
                => all_matrices[s].matrix =
                       (<<args.window_size, args.window_size>> :> r.value.q)

\* the header is malformed: bad magic, resolution or chromosome count not
\* positive, or the stream ends inside the header
Malformed(h) ==
    \/ h.magic # "HICSLICE"
    \/ h.resolution <= 0
    \/ h.numChromosomes <= 0
    \/ h.items < 3 + 3 * h.numChromosomes

\* no record has been read and nothing has been accumulated
NothingProcessed ==
    /\ consumed = <<>>
    /\ contact_count = 0
    /\ coverage.vectors = CoverageVectors(1).vectors
    /\ \A s \in DOMAIN all_matrices : all_matrices[s].matrix = Empty

\* C12: with a bad magic, a resolution <= 0, a chromosome count <= 0 or a
\* truncated header the run fails before any record is read: nothing is
\* accumulated and no matrix is returned.
C12_MalformedHeaderIsFatal ==
    Malformed(header) =>
        /\ pc \in {"Init", "HeaderRead", "IndexesBuilt", "Dictionary", "Failed"}
        /\ NothingProcessed

\* the run failed on a chromosome count of 0, the matrices already built
C12_Witness ==
    /\ pc = "Failed"
    /\ header.magic = "HICSLICE"
    /\ header.resolution > 0
    /\ header.numChromosomes = 0
    /\ all_matrices # <<>>
    /\ NothingProcessed

\* the entries the header declares
Declared(h) == 1..(IF h.numChromosomes < Len(h.chroms)
                   THEN h.numChromosomes ELSE Len(h.chroms))

\* the run got past the header
PastHeader == pc \in {"Streaming", "Done", "Crashed"}

\* C13: a header with two chromosome entries of the same key is rejected
\* before streaming.
C13_DuplicateKeyRejected ==
    (\E i, j \in Declared(header) : i # j /\ header.chroms[i].key = header.chroms[j].key)
        => ~PastHeader

\* C14: when an anchor of a loop set names a chromosome that the dictionary
\* of the stream does not hold, the run does not complete successfully (shown
\* on streams that end cleanly).
C14_UnknownChromosomeFails ==
    (\E s \in DOMAIN args.all_bedpe_entries : \E l \in DOMAIN args.all_bedpe_entries[s] :
        \/ args.all_bedpe_entries[s][l].chrom1
               \notin {header.chroms[i].name : i \in Declared(header)}
        \/ args.all_bedpe_entries[s][l].chrom2
               \notin {header.chroms[i].name : i \in Declared(header)})
        => ~(pc = "Done" /\ bytesRead # ReadError)

\* C15: the dictionary is rejected when a name length is <= 0, when an entry
\* is truncated or when fewer entries than declared are present.
C15_DictionaryFormatChecked ==
    (\/ \E i \in Declared(header) : header.chroms[i].nameLength <= 0
     \/ header.items < 3 + 3 * header.numChromosomes)
        => pc \notin {"Streaming", "Done"}

\* C16: with window <= 0 or max distance < min distance the run fails before
\* the stream is opened.
C16_ConfigValidated ==
    (args.window_size <= 0 \/ args.max_genome_dist < args.min_genome_dist)
        => pc \in {"Init", "Failed"}

\* sizes of chr1Key, binX, chr2Key, binY, value
RecordFields == <<2, 4, 2, 4, 4>>

RECURSIVE PackedOffset(_)
\* offset of field i when the fields follow each other without padding
PackedOffset(i) == IF i = 1 THEN 0 ELSE PackedOffset(i - 1) + RecordFields[i - 1]

RECURSIVE FieldOffset(_)
\* offset of field i in the struct: each field aligned to its size
FieldOffset(i) ==
    IF i = 1 THEN 0
    ELSE LET end == FieldOffset(i - 1) + RecordFields[i - 1]
             a == RecordFields[i]
         IN  ((end + a - 1) \div a) * a

\* sizeof(record): the end of the last field rounded up to the alignment of
\* the struct
SizeOfRecord ==
    LET n == Len(RecordFields)
    IN  (((FieldOffset(n) + RecordFields[n]) + 3) \div 4) * 4

PackedRecordSize == PackedOffset(Len(RecordFields)) + RecordFields[Len(RecordFields)]

\* C17: every step of the record loop consumes 16 bytes, the five fields
\* lying in them without padding, so that record k starts 16 * k bytes after
\* the header.
C17_RecordIs16Bytes ==
    (pc = "Streaming" /\ Len(consumed) > 0) =>
        /\ bytesRead = PackedRecordSize
        /\ record_size * Len(consumed) = PackedRecordSize * Len(consumed)
        /\ SizeOfRecord = PackedRecordSize
        /\ \A i \in DOMAIN RecordFields : FieldOffset(i) = PackedOffset(i)

\* C18: a read that fails during streaming makes the run fail; it does not
\* end the stream and lead to normalization.
C18_ReadErrorIsFatal ==
    pc = "Done" => bytesRead # ReadError

TimesReturned(s, l, binX) ==
    LET loop == LoopInfo(args.all_bedpe_entries[s][l])
        nearby_loops == getNearbyLoops(all_indices[s], loop.chrom1, loop.chrom2, binX)
    IN  Cardinality({i \in DOMAIN nearby_loops : nearby_loops[i] = loop})

\* C20: for every window in 1..1000, every loop of a set and every record on
\* the loop's chromosomes within the window of the loop's center on both axes,
\* getNearbyLoops returns the loop, once for each time the set holds it.
C20_NearbyLoopsComplete ==
    (all_indices # <<>> /\ args.window_size \in 1..1000) =>
        \A s \in DOMAIN all_indices : \A l \in DOMAIN args.all_bedpe_entries[s] :
            \A binX \in EdgeBins(CenterX(s, l)), binY \in EdgeBins(CenterY(s, l)) :
                (/\ Abs(binX - CenterX(s, l)) <= args.window_size
                 /\ Abs(binY - CenterY(s, l)) <= args.window_size)
                => TimesReturned(s, l, binX) =
                       Cardinality({k \in DOMAIN args.all_bedpe_entries[s] :
                                       args.all_bedpe_entries[s][k] =
                                           args.all_bedpe_entries[s][l]})

\* what one loop adds to the zeroed sums of an axis: addLocalSums from the
\* bin the normalization loop starts at, for an anchor lo..hi on chrom
LoopSums(chrom, lo, hi) ==
    addLocalSums(ZeroVector(args.window_size * 2 + 1), coverage, chrom,
                 SumsBinStart(lo, hi, resolution, args.window_size))

\* the indexes of a loop's window at which the coverage of chrom is not 0,
\* the window starting at bin first
CoveredIndexes(chrom, first) ==
    IF chrom \in DOMAIN coverage.vectors
    THEN {i \in {b - first : b \in DOMAIN coverage.vectors[chrom]} :
             i >= 0 /\ i <= 2 * args.window_size}
    ELSE {}

\* C21: for every loop, entry i of what the loop adds to rowSums (colSums) is
\* the coverage at bin centerX - window + i (centerY - window + i), centerX
\* and centerY being the center bins the record loop places records with.
C21_SumsAlignedWithMatrix ==
    pc = "Done" =>
        \A s \in DOMAIN all_indices : \A l \in DOMAIN args.all_bedpe_entries[s] :
            LET e == args.all_bedpe_entries[s][l]
                firstX == CenterX(s, l) - args.window_size
                firstY == CenterY(s, l) - args.window_size
                row == LoopSums(e.chrom1, e.start1, e.end1)
                col == LoopSums(e.chrom2, e.start2, e.end2)
            IN  /\ \A i \in DOMAIN row.v \cup CoveredIndexes(e.chrom1, firstX) :
                      At(row, i) = CoverageAt(coverage, e.chrom1, firstX + i)
                /\ \A i \in DOMAIN col.v \cup CoveredIndexes(e.chrom2, firstY) :
                      At(col, i) = CoverageAt(coverage, e.chrom2, firstY + i)

\* record r has a positive finite value and agrees with the mode
PassesValueAndMode(r) ==
    /\ ~NotPositiveFinite(r.value)
    /\ IF args.isInter THEN NameOf(r.chr1Key) # NameOf(r.chr2Key)
       ELSE NameOf(r.chr1Key) = NameOf(r.chr2Key)

\* record r lies in the window of some loop and at bins that are indexed
MatchesALoop(r) ==
    /\ r.binX >= 0
    /\ r.binY >= 0
    /\ \E s \in DOMAIN args.all_bedpe_entries :
          \E l \in DOMAIN args.all_bedpe_entries[s] : InWindow(r, s, l)

\* the bin distance of r, as a genomic distance, lies outside
\* minDist - 3 * window * resolution .. maxDist + 3 * window * resolution
OutsideGenomicRange(r) ==
    \/ Abs(r.binX - r.binY) * resolution
           < args.min_genome_dist - 3 * args.window_size * resolution
    \/ Abs(r.binX - r.binY) * resolution
           > args.max_genome_dist + 3 * args.window_size * resolution

\* the bin distance of r lies outside
\* minDist / resolution - 3 * window .. maxDist / resolution + 3 * window
OutsideBinRange(r) ==
    \/ Abs(r.binX - r.binY) < CDiv(args.min_genome_dist, resolution) - 3 * args.window_size
    \/ Abs(r.binX - r.binY) > CDiv(args.max_genome_dist, resolution) + 3 * args.window_size

\* C22 as stated: in intra mode a record that passed the value and mode
\* filters is rejected by the distance prefilter if and only if its bin
\* distance is below minDist / resolution - 3 * window or above
\* maxDist / resolution + 3 * window, the divisions being integer divisions;
\* in inter mode the step rejects nothing.
C22_RejectedByBinDistance ==
    /\ [](pc = "Streaming" =>
            \A r \in RecordChoices :
                DistanceRejected(Cfg, r) <=> (~args.isInter /\ OutsideBinRange(r)))
    /\ [][(/\ consumed' # consumed
           /\ pc' = "Streaming"
           /\ PassesValueAndMode(record')
           /\ MatchesALoop(record'))
          => (all_matrices' = all_matrices
                <=> (~args.isInter /\ OutsideBinRange(record')))]_vars

\* C22 amended: the comparison is made in base pairs, without rounding: the
\* record is rejected if and only if |bin1 - bin2| * resolution is below
\* minDist - 3 * window * resolution or above maxDist + 3 * window *
\* resolution; in inter mode the step rejects nothing.
C22_RejectedByGenomicDistance ==
    /\ [](pc = "Streaming" =>
            \A r \in RecordChoices :
                DistanceRejected(Cfg, r) <=> (~args.isInter /\ OutsideGenomicRange(r)))
    /\ [][(/\ consumed' # consumed
           /\ pc' = "Streaming"
           /\ PassesValueAndMode(record')
           /\ MatchesALoop(record'))
          => (all_matrices' = all_matrices
                <=> (~args.isInter /\ OutsideGenomicRange(record')))]_vars

\* a record in the window of a loop was rejected by its distance, which lies
\* between the rounded and the exact lower bound, after it was added to the
\* coverage
C22_Witness ==
    /\ pc = "Streaming"
    /\ Len(consumed) = 1
    /\ ~args.isInter
    /\ PassesValueAndMode(record)
    /\ MatchesALoop(record)
    /\ OutsideGenomicRange(record)
    /\ ~OutsideBinRange(record)
    /\ coverage.vectors # CoverageVectors(1).vectors
    /\ \A s \in DOMAIN all_matrices : all_matrices[s].matrix = Empty

\* the coverage the record loop leaves when the call is given no loop set and
\* the distance bounds 0..0
CoverageAlone ==
    RunFrom(StartOf(<<>>),
            [CfgOf(<<>>) EXCEPT !.min_genome_dist = 0, !.max_genome_dist = 0],
            consumed, 1).coverage

\* C23: the stages of the record loop run in order and short-circuit.  A
\* record rejected by the value filter or by the mode filter changes neither
\* the coverage nor a matrix; a record that passes both raises the coverage at
\* its first end, whether or not the distance prefilter, probablyContains or
\* the loops then take it; the coverage is the one a call without loop sets
\* and with other distance bounds accumulates.
C23_StagesShortCircuit ==
    /\ [][(consumed' # consumed /\ ~PassesValueAndMode(record'))
            => coverage' = coverage /\ all_matrices' = all_matrices]_vars
    /\ [][(consumed' # consumed /\ PassesValueAndMode(record'))
            => RPos(RAdd(CoverageAt(coverage', NameOf(record'.chr1Key), record'.binX),
                         RMul(RInt(-1),
                              CoverageAt(coverage, NameOf(record'.chr1Key),
                                         record'.binX))))]_vars
    /\ [](pc \in {"Streaming", "Done"} => coverage = CoverageAlone)

\* the call made by the step: its name and its arguments
LastCall == uadds'[Len(uadds')]

\* C24: add(chr, bin, value) leaves the accumulator as it is when value <= 0;
\* when value > 0 it raises the entry of (chr, bin) by value and changes no
\* other entry; it does not fail, whatever the chromosome and the bin; no
\* stored value ever decreases.
C24_AddAccumulates ==
    [][(uadds' # uadds /\ LastCall[1] = "add") =>
          LET chrom == LastCall[2]
              bin == LastCall[3]
              value == LastCall[4]
              entries == {<<c, b>> : c \in UnitChroms, b \in UnitBins}
          IN  /\ upc' # "crashed"
              /\ \A e \in entries :
                    CoverageAt(coverage', e[1], e[2]) =
                        IF e = <<chrom, bin>> /\ RPos(value)
                        THEN RAdd(CoverageAt(coverage, e[1], e[2]), value)
                        ELSE CoverageAt(coverage, e[1], e[2])]_vars

\* the coverage of bin binStart + i of chrom: what was accumulated there, 0
\* for an unknown chromosome, a negative bin, a bin past the end of the
\* vector (past INT32_MAX included) or a bin never touched
Stored(chrom, binStart, i) ==
    IF \/ chrom \notin DOMAIN coverage.vectors
       \/ binStart < -i
       \/ binStart >= getChromBins(chrom, resolution) - i
       \/ binStart + i \notin DOMAIN coverage.vectors[chrom]
    THEN RZero
    ELSE coverage.vectors[chrom][binStart + i]

\* C25: addLocalSums(sums, chr, binStart) adds to every entry i of the sums
\* the coverage accumulated at bin binStart + i, and 0 where that bin was
\* never touched, is negative, lies past the end of the vector or belongs to
\* an unknown chromosome; it leaves the accumulator as it is.
C25_LocalSumsReadCoverage ==
    [][(uadds' # uadds /\ LastCall[1] = "addLocalSums") =>
          /\ coverage' = coverage
          /\ urowSums'.size = urowSums.size
          /\ \A i \in 0..(urowSums.size - 1) :
                At(urowSums', i) =
                    RAdd(At(urowSums, i), Stored(LastCall[2], LastCall[3], i))
          /\ DOMAIN urowSums'.v \subseteq 0..(urowSums.size - 1)]_vars

\* sums that already held a value were given the coverage of a window that
\* starts below bin 0 and holds a touched and an untouched bin
C25_Witness ==
    /\ Len(uadds) = 2
    /\ uadds[1] = <<"add", "chr1", 0, RInt(2)>>
    /\ uadds[2] = <<"addLocalSums", "chr1", -2>>
    /\ urow0 # ZeroVector(UnitWidth)
    /\ urowSums.v = (0 :> RInt(1)) @@ (2 :> RInt(2))

\* C26: a record counts as intra-chromosomal exactly when its two keys are
\* equal.  In intra mode a record with different keys changes neither the
\* coverage nor a matrix; in inter mode the mode filter does not drop it;
\* this also with keys the dictionary does not hold and with two keys of the
\* same name.  Looking up the keys of a record adds nothing to the dictionary.
C26_IntraMeansEqualKeys ==
    /\ [][(/\ consumed' # consumed
           /\ ~args.isInter
           /\ record'.chr1Key # record'.chr2Key)
          => coverage' = coverage /\ all_matrices' = all_matrices]_vars
    /\ [][(/\ consumed' # consumed
           /\ args.isInter
           /\ record'.chr1Key # record'.chr2Key)
          => ~ModeRejected(args.isInter,
                           Lookup(chromosomeKeyToName', record'.chr1Key),
                           Lookup(chromosomeKeyToName', record'.chr2Key))]_vars
    /\ [][consumed' # consumed => chromosomeKeyToName' = chromosomeKeyToName]_vars

\* loop e is a pair the anchor generator makes under the distance bounds of
\* the call
MadeByGenerator(e) ==
    IntraPair(BedEntry(e.chrom1, e.start1, e.end1), BedEntry(e.chrom2, e.start2, e.end2),
              args.min_genome_dist, args.max_genome_dist)

\* C27: with a window of at least 1, for every loop the anchor generator makes
\* under the same distance bounds and every record within the window of the
\* loop's center bins on both axes, the distance prefilter does not reject the
\* record.
C27_PrefilterKeepsContributors ==
    (pc = "Streaming" /\ ~args.isInter /\ args.window_size >= 1) =>
        \A s \in DOMAIN args.all_bedpe_entries :
            \A l \in DOMAIN args.all_bedpe_entries[s] :
                MadeByGenerator(args.all_bedpe_entries[s][l]) =>
                    \A binX \in EdgeBins(CenterX(s, l)), binY \in EdgeBins(CenterY(s, l)) :
                        (/\ Abs(binX - CenterX(s, l)) <= args.window_size
                         /\ Abs(binY - CenterY(s, l)) <= args.window_size)
                        => ~DistanceRejected(Cfg, Record(1, binX, 1, binY, Fin(1)))

\* the sort key of a BEDPE entry
SortKey(e) == <<NameIndex(e.chrom1), NameIndex(e.chrom2), e.start1, e.start2>>

RECURSIVE KeyLeq(_, _)
\* a <= b in lexicographic order
KeyLeq(a, b) ==
    IF a = <<>> THEN TRUE
    ELSE IF Head(a) # Head(b) THEN Head(a) < Head(b)
    ELSE KeyLeq(Tail(a), Tail(b))

\* C28: the list buildBedpe returns is sorted by (chrom1, chrom2, start1,
\* start2) and holds no two entries with equal chromosomes, starts and ends,
\* whatever the BED files: repeated lines, anchors that share a start and
\* differ in their end.
C28_SortedWithoutDuplicates ==
    bpc = "Returned" =>
        /\ \A i, j \in DOMAIN all_results :
              i < j => KeyLeq(SortKey(all_results[i]), SortKey(all_results[j]))
        /\ \A i, j \in DOMAIN all_results :
              i # j => all_results[i] # all_results[j]

\* C29: for every loop with coordinates in the int32_t range the midpoint bin
\* ((start + end) / 2) / resolution, as LoopIndex files the loop and as the
\* normalization takes its window start from it, is the one of unbounded
\* arithmetic; the center of RegionsOfInterest is the center of the exact
\* per-record test.
C29_MidpointBinWithoutWraparound ==
    pc = "Streaming" =>
        \A s \in DOMAIN all_indices : \A l \in DOMAIN args.all_bedpe_entries[s] :
            LET e == args.all_bedpe_entries[s][l]
                win == args.window_size
                groups == all_indices[s].loops[<<e.chrom1, e.chrom2>>]
                group == CDiv(MidBin(e.start1, e.end1), BIN_GROUP_SIZE)
            IN  /\ group \in DOMAIN groups
                /\ LoopInfo(e) \in Range(groups[group])
                /\ SumsBinStart(e.start1, e.end1, resolution, win)
                       = MidBin(e.start1, e.end1) - win
                /\ SumsBinStart(e.start2, e.end2, resolution, win)
                       = MidBin(e.start2, e.end2) - win
                /\ CenterX(s, l) >= 0 => CenterX(s, l) \in all_roi[s].rowIndices[e.chrom1]
                /\ CenterY(s, l) >= 0 => CenterY(s, l) \in all_roi[s].colIndices[e.chrom2]

\* the steps of a run that throws nothing
Forward ==
    { <<"Init", "HeaderRead">>, <<"HeaderRead", "IndexesBuilt">>,
      <<"IndexesBuilt", "Dictionary">>, <<"Dictionary", "Streaming">>,
      <<"Streaming", "Done">> }

\* the steps in which the code throws
Throwing == {<<"Init", "Failed">>, <<"IndexesBuilt", "Failed">>, <<"Dictionary", "Failed">>}

\* the steps in which undefined behaviour kills the run
Dying == {<<"Dictionary", "Crashed">>, <<"Streaming", "Crashed">>}

\* the dictionary of the stream has been read
DictionaryRead == pc \in {"Streaming", "Done", "Crashed"}

====
